---- MODULE Spec2Model ----
(***************************************************************************)
(* Model of dnac.py: the SNMP configuration compliance pipeline run()      *)
(* (export, poll, download, unzip, validate, synthesize, create template,  *)
(* deploy) together with its helpers.                                      *)
(*                                                                         *)
(* Python str values are TLA+ strings; Len, \o and SubSeq act on them      *)
(* character by character, so `in`, strip(), "\n".join() and line          *)
(* iteration are computed, not assumed.                                    *)
(***************************************************************************)
EXTENDS Naturals, Sequences, FiniteSets, TLC

(* ------------------------------ bounds -------------------------------- *)
\* Polls of one poll loop that the model follows (the loops are unbounded).
MaxPolls == 3
\* Devices in one enumeration result.
MaxDevices == 3
\* Lines of a running config drawn for the validator on its own.
MaxLines == 2

(* --------------------------- Python helpers --------------------------- *)
\* Python `a in b` for str.
IsSubstr(a, b) ==
    \E i \in 1..(Len(b) + 1) :
        /\ i + Len(a) - 1 <= Len(b)
        /\ SubSeq(b, i, i + Len(a) - 1) = a

Whitespace == {" ", "\n", "\t"}

RECURSIVE lstrip(_)
lstrip(s) ==
    IF Len(s) > 0 /\ SubSeq(s, 1, 1) \in Whitespace
    THEN lstrip(SubSeq(s, 2, Len(s)))
    ELSE s

RECURSIVE rstrip(_)
rstrip(s) ==
    IF Len(s) > 0 /\ SubSeq(s, Len(s), Len(s)) \in Whitespace
    THEN rstrip(SubSeq(s, 1, Len(s) - 1))
    ELSE s

\* str.strip()
strip(s) == rstrip(lstrip(s))

\* "\n".join(list)
RECURSIVE JoinLines(_)
JoinLines(list) ==
    IF list = <<>> THEN ""
    ELSE IF Len(list) = 1 THEN list[1]
    ELSE list[1] \o "\n" \o JoinLines(Tail(list))

\* `for line in config`: the text cut after each "\n", line ends kept.
RECURSIVE FileLines(_, _)
FileLines(text, from) ==
    IF from > Len(text) THEN <<>>
    ELSE LET nl == { j \in from..Len(text) : SubSeq(text, j, j) = "\n" }
         IN  IF nl = {} THEN << SubSeq(text, from, Len(text)) >>
             ELSE LET e == CHOOSE j \in nl : \A k \in nl : j <= k
                  IN  << SubSeq(text, from, e) >> \o FileLines(text, e + 1)

\* A Python dict is a sequence of [key, val] pairs in insertion order.
DictKeys(d) == [i \in 1..Len(d) |-> d[i].key]

DictHas(d, k) == \E i \in 1..Len(d) : d[i].key = k

DictSetFront(d, k, v) ==
    IF DictHas(d, k)
    THEN [i \in 1..Len(d) |-> IF d[i].key = k THEN [key |-> k, val |-> v] ELSE d[i]]
    ELSE << [key |-> k, val |-> v] >> \o d

\* d[k] = v : an existing key keeps its place, a new key goes last.
DictSet(d, k, v) ==
    IF DictHas(d, k)
    THEN [i \in 1..Len(d) |-> IF d[i].key = k THEN [key |-> k, val |-> v] ELSE d[i]]
    ELSE Append(d, [key |-> k, val |-> v])

(* ------------------------------ constants ----------------------------- *)
KEYWORD == "snmp-server host"
MARKER == "Export_Configs"
ARCHIVE_SECRET == "Abcdefgh12345678!"
TEMPLATE_NAME == "snmp-remediation"
\* template_id before the query loop assigns it (an unbound local).
Unbound == "<unbound>"

VARIABLES
    pc,                          \* position of run()
    exit_status,                 \* "running", "0", "1" (sys.exit(1) or uncaught exception)
    exception,                   \* uncaught exception, "" when none
    VALID_SNMP_SERVER_HOST,
    VALID_SNMP_SERVER_COMMUNITY,
    NEW_CONFIG,
    LOCATION_FILTER,
    devices,                     \* devices.response
    target_devices,              \* dict: management address -> {"id", ["bad_config"]}
    device_types,
    task_log,                    \* payloads returned by get_task_by_id, in order
    task_response,
    directory,                   \* files of the working directory
    target_file,
    configfiles,                 \* extracted running configs, by device address
    vidx,                        \* devices of target_devices already validated
    running_config,              \* text read by the last validate_snmp_config
    result,                      \* its return value
    config_found,                \* its config_found flag
    findings,                    \* every validate_snmp_config call: device and return value
    deployable_devices,
    template_payload,
    project_templates,           \* project[0]["templates"] on the controller
    create_outcome,              \* "none", "ok", "conflict", "error"
    continue_answer,             \* "unasked", "yes", "no"
    template_id,
    deploy_answer,               \* "unasked", "yes", "no"
    deploy_log,                  \* statuses returned by get_template_deployment_status
    failure_reports,             \* payloads pprint-ed on FAILURE
    deploy_requests,             \* arguments of every deploy_template call
    trace                        \* calls and steps made so far, in order

vars == << pc, exit_status, exception, VALID_SNMP_SERVER_HOST,
           VALID_SNMP_SERVER_COMMUNITY, NEW_CONFIG, LOCATION_FILTER, devices,
           target_devices, device_types, task_log, task_response, directory,
           target_file, configfiles, vidx, running_config, result, config_found,
           findings,
           deployable_devices, template_payload, project_templates,
           create_outcome, continue_answer, template_id, deploy_answer,
           deploy_log, failure_reports, deploy_requests, trace >>


(* ------------------------------ inputs -------------------------------- *)
\* The settings block of the script: the values as shipped (all empty), and
\* the values of an operator who filled it in, without and with a location.
Settings ==
    { [host |-> "", community |-> "", new_config |-> "", location |-> <<>>],
      [host |-> "10.0.0.2", community |-> "public",
       new_config |-> "snmp-server host 10.0.0.2 community public",
       location |-> <<>>],
      [host |-> "10.0.0.2", community |-> "public",
       new_config |-> "snmp-server host 10.0.0.2 community public",
       location |-> <<"SiteA">>] }

\* Devices the controller may report; the third shares the first's address.
Devices ==
    { [id |-> "uuid-1", managementIpAddress |-> "10.0.0.1",
       family |-> "Switches and Hubs", series |-> "Catalyst 9300", location |-> "SiteA"],
      [id |-> "uuid-2", managementIpAddress |-> "10.0.0.2",
       family |-> "Routers", series |-> "ISR 4000", location |-> "SiteB"],
      [id |-> "uuid-3", managementIpAddress |-> "10.0.0.1",
       family |-> "Switches and Hubs", series |-> "Catalyst 9200", location |-> "SiteA"] }

\* All orderings of the subsets of S with at most n elements.
SeqsOfDistinct(S, n) ==
    UNION { { s \in [1..k -> S] : \A i, j \in 1..k : i # j => s[i] # s[j] } : k \in 0..n }

Enumerations == SeqsOfDistinct(Devices, MaxDevices)

\* Task status records of get_task_by_id: running (endTime 0 stands for None),
\* completed with a file to download, and failed with none.
TaskPayloads ==
    { [endTime |-> 0, progress |-> "Export in progress", additionalStatusURL |-> ""],
      [endTime |-> 1667635200, progress |-> "Export completed",
       additionalStatusURL |-> "/api/v1/file/file-1"],
      [endTime |-> 1667635260, progress |-> "Export failed", additionalStatusURL |-> ""] }

\* What the working directory holds before the download.
StaleArchive == [name |-> "Export_Configs_old.zip", pwd |-> "Zyxwvuts87654321!"]

PreExistingDirs == { {}, { StaleArchive } }

\* Names under which the controller's file may be saved.
DownloadNames == { "Export_Configs_new.zip", "device_configs.zip" }

\* Running configs as exported: compliant, non-compliant, no SNMP host line.
ExportedConfigs ==
    { "hostname sw1\nsnmp-server host 10.0.0.2 community public\n",
      "snmp-server host 10.0.0.1 community wrongcomm\n snmp-server host 10.0.0.2 community private \n",
      "hostname sw2\nsnmp-server community public RO\n" }

\* Lines for the validator on its own.
ConfigLineSet ==
    { "snmp-server host 10.0.0.2 community public\n",
      "snmp-server host 10.0.0.1 community wrongcomm\n",
      " snmp-server host 10.0.0.2 community private \n",
      "snmp-server host 10.0.0.3 community public\n",
      "snmp-server host 10.0.0.21 version 2c public",
      "snmp-server community public RO\n",
      "hostname 10.0.0.2 public\n" }

RECURSIVE ConfigTexts(_)
ConfigTexts(n) ==
    IF n = 0 THEN { "" }
    ELSE LET shorter == ConfigTexts(n - 1)
         IN  shorter \cup { t \o l : t \in shorter, l \in ConfigLineSet }

\* Templates of the project before create_template.
OtherTemplate == [name |-> "ntp-baseline", id |-> "tmpl-ntp"]

OldTemplate == [name |-> TEMPLATE_NAME, id |-> "tmpl-old"]

ProjectStates == { << OtherTemplate >>, << OldTemplate, OtherTemplate >> }

DeploymentStatuses == { "SUBMITTED", "SUCCESS", "FAILURE" }

(* ------------------------ validate_snmp_config ------------------------ *)
\* The line is one the validator looks at.
Selected(line) == IsSubstr(KEYWORD, strip(line))

CompliantEither(line) ==
    \/ IsSubstr(VALID_SNMP_SERVER_HOST, line)
    \/ IsSubstr(VALID_SNMP_SERVER_COMMUNITY, line)

\* The line holds both expected values.
Compliant(line) ==
    /\ IsSubstr(VALID_SNMP_SERVER_HOST, line)
    /\ IsSubstr(VALID_SNMP_SERVER_COMMUNITY, line)

RECURSIVE ValidateLinesFlagOnInvalid(_, _)
ValidateLinesFlagOnInvalid(lines, st) ==
    IF lines = <<>> THEN st
    ELSE LET line == Head(lines)
             nxt  == IF Selected(line) /\ ~Compliant(line)
                     THEN [bad_config |-> Append(st.bad_config, strip(line)),
                           config_found |-> TRUE]
                     ELSE st
         IN  ValidateLinesFlagOnInvalid(Tail(lines), nxt)

\* The loop over the lines of the running config.
RECURSIVE ValidateLines(_, _)
ValidateLines(lines, st) ==
    IF lines = <<>> THEN st
    ELSE LET line == Head(lines)
             nxt  == IF Selected(line)
                     THEN IF Compliant(line)
                          THEN [st EXCEPT !.config_found = TRUE]
                          ELSE [bad_config |-> Append(st.bad_config, strip(line)),
                                config_found |-> TRUE]
                     ELSE st
         IN  ValidateLines(Tail(lines), nxt)

validate_snmp_config(text) ==
    ValidateLines(FileLines(text, 1), [bad_config |-> <<>>, config_found |-> FALSE])

\* if not config_found: print "No matching config found for device."
NoMatchingConfigFound(found) == ~found

(* ----------------------- generateTemplatePayload ---------------------- *)
\* "bad_config" in device_list[device]
HasBadConfig(val) == "bad_config" \in DOMAIN val

GuardOpen(device) == "#if($device_ip == '" \o device \o "')"

DeviceBlockNoSeparator(device, val) ==
    << GuardOpen(device) >>
    \o [i \in 1..Len(val.bad_config) |-> "no " \o val.bad_config[i]]
    \o << "#end" >>

\* The lines appended for one device that has bad config.
DeviceBlock(device, val) ==
    << GuardOpen(device) >>
    \o [i \in 1..Len(val.bad_config) |-> "no " \o val.bad_config[i]]
    \o << "#end", "" >>

RECURSIVE DeviceBlocks(_)
DeviceBlocks(device_list) ==
    IF device_list = <<>> THEN <<>>
    ELSE (IF HasBadConfig(Head(device_list).val)
          THEN DeviceBlock(Head(device_list).key, Head(device_list).val)
          ELSE <<>>)
         \o DeviceBlocks(Tail(device_list))

FooterPerDevice(device_list) == [i \in 1..(Len(device_list) + 1) |-> NEW_CONFIG]

\* template_payload.append(NEW_CONFIG), after the loop
Footer(device_list) == << NEW_CONFIG >>

generateTemplatePayload(device_list) ==
    JoinLines(DeviceBlocks(device_list) \o Footer(device_list))


(* -------------------------------- run() ------------------------------- *)
settingVars == << VALID_SNMP_SERVER_HOST, VALID_SNMP_SERVER_COMMUNITY, NEW_CONFIG,
                  LOCATION_FILTER >>

enumVars == << devices, device_types >>

taskVars == << task_log, task_response >>

fileVars == << directory, target_file, configfiles >>

validateVars == << vidx, running_config, result, config_found, findings,
                  deployable_devices >>

templateVars == << project_templates, create_outcome, continue_answer, template_id >>

deployVars == << deploy_answer, deploy_log, failure_reports, deploy_requests >>

endVars == << exit_status, exception >>

\* The state every run starts from, the settings apart.
Fresh ==
    /\ exit_status = "running"
    /\ exception = ""
    /\ devices = <<>>
    /\ target_devices = <<>>
    /\ device_types = <<>>
    /\ task_log = <<>>
    /\ task_response = [endTime |-> 0, progress |-> "", additionalStatusURL |-> ""]
    /\ directory = {}
    /\ target_file = Unbound
    /\ configfiles = <<>>
    /\ vidx = 0
    /\ running_config = ""
    /\ result = <<>>
    /\ config_found = FALSE
    /\ findings = <<>>
    /\ deployable_devices = <<>>
    /\ template_payload = ""
    /\ project_templates = <<>>
    /\ create_outcome = "none"
    /\ continue_answer = "unasked"
    /\ template_id = Unbound
    /\ deploy_answer = "unasked"
    /\ deploy_log = <<>>
    /\ failure_reports = <<>>
    /\ deploy_requests = <<>>
    /\ trace = <<>>

Init ==
    /\ pc = "get_device_list"
    /\ \E s \in Settings :
        /\ VALID_SNMP_SERVER_HOST = s.host
        /\ VALID_SNMP_SERVER_COMMUNITY = s.community
        /\ NEW_CONFIG = s.new_config
        /\ LOCATION_FILTER = s.location
    /\ Fresh

\* sys.exit(1)
Exit1 ==
    /\ pc' = "exited"
    /\ exit_status' = "1"
    /\ UNCHANGED exception

\* An exception nothing catches: traceback, exit status 1.
Raise(name) ==
    /\ pc' = "crashed"
    /\ exit_status' = "1"
    /\ exception' = name

InFilter(x, filter) == \E i \in 1..Len(filter) : filter[i] = x

RECURSIVE BuildTargetDevicesAsList(_, _)
BuildTargetDevicesAsList(response, acc) ==
    IF response = <<>> THEN acc
    ELSE LET device == Head(response)
             skip   == Len(LOCATION_FILTER) >= 1 /\ ~InFilter(device.location, LOCATION_FILTER)
         IN  BuildTargetDevicesAsList(
                 Tail(response),
                 IF skip THEN acc
                 ELSE Append(acc, [key |-> device.managementIpAddress,
                                   val |-> [id |-> device.id]]))

\* The loop building target_devices from devices.response.
RECURSIVE BuildTargetDevices(_, _)
BuildTargetDevices(response, acc) ==
    IF response = <<>> THEN acc
    ELSE LET device == Head(response)
             skip   == Len(LOCATION_FILTER) >= 1 /\ ~InFilter(device.location, LOCATION_FILTER)
         IN  BuildTargetDevices(
                 Tail(response),
                 IF skip THEN acc
                 ELSE DictSet(acc, device.managementIpAddress, [id |-> device.id]))

GetDeviceList ==
    /\ pc = "get_device_list"
    /\ \E response \in Enumerations :
        /\ devices' = response
        /\ target_devices' = BuildTargetDevices(response, <<>>)
        /\ device_types' = [i \in 1..Len(response) |->
                               [productFamily |-> response[i].family,
                                productSeries |-> response[i].series]]
        /\ trace' = trace \o << "get_device_list" >>
                    \o [i \in 1..(IF Len(LOCATION_FILTER) >= 1 THEN Len(response) ELSE 0)
                          |-> "get_device_detail"]
    /\ pc' = "export_device_configurations"
    /\ UNCHANGED << settingVars, taskVars, fileVars, validateVars, template_payload,
                    templateVars, deployVars, endVars >>

ExportDeviceConfigurations ==
    /\ pc = "export_device_configurations"
    /\ trace' = Append(trace, "export_device_configurations")
    /\ pc' = "checkTaskStatus"
    /\ UNCHANGED << settingVars, enumVars, target_devices, taskVars, fileVars,
                    validateVars, template_payload, templateVars, deployVars, endVars >>

TaskFinishedAlways(task_status) == TRUE

\* if task_status["response"]["endTime"]
TaskFinished(task_status) == task_status.endTime # 0

PollFailureRetried(error) ==
    /\ pc' = "checkTaskStatus"
    /\ UNCHANGED endVars

\* get_task_by_id raises: no try encloses the call, in checkTaskStatus or in
\* run(), so the exception ends the run.
PollFailure(error) == Raise(error)

\* One turn of the loop of checkTaskStatus: the query answers, or raises a
\* transport error.
CheckTaskStatus ==
    /\ pc = "checkTaskStatus"
    /\ Len(task_log) < MaxPolls
    /\ \/ /\ \E task_status \in TaskPayloads :
               /\ task_log' = Append(task_log, task_status)
               /\ IF TaskFinished(task_status)
                  THEN task_response' = task_status /\ pc' = "downloadFile"
                  ELSE UNCHANGED task_response /\ pc' = "checkTaskStatus"
          /\ trace' = Append(trace, "get_task_by_id")
          /\ UNCHANGED endVars
       \/ /\ PollFailure("ConnectionError")
          /\ trace' = Append(trace, "get_task_by_id:ConnectionError")
          /\ UNCHANGED taskVars
    /\ UNCHANGED << settingVars, enumVars, target_devices, fileVars, validateVars,
                    template_payload, templateVars, deployVars >>

\* str.split(sep) for a one-character sep.
RECURSIVE Split(_, _)
Split(text, sep) ==
    LET at == { j \in 1..Len(text) : SubSeq(text, j, j) = sep }
    IN  IF at = {} THEN << text >>
        ELSE LET e == CHOOSE j \in at : \A k \in at : j <= k
             IN  << SubSeq(text, 1, e - 1) >> \o Split(SubSeq(text, e + 1, Len(text)), sep)

DownloadFile ==
    /\ pc = "downloadFile"
    /\ LET parts == Split(task_response.additionalStatusURL, "/")
       IN  IF Len(parts) < 5
           THEN /\ Raise("IndexError")
                /\ UNCHANGED << directory, trace >>
           ELSE /\ \E pre \in PreExistingDirs, saved \in DownloadNames :
                     directory' = pre \cup { [name |-> saved, pwd |-> ARCHIVE_SECRET] }
                /\ trace' = Append(trace, "download_a_file_by_fileid")
                /\ pc' = "unzipConfigFile"
                /\ UNCHANGED endVars
    /\ UNCHANGED << settingVars, enumVars, target_devices, taskVars, target_file,
                    configfiles, validateVars, template_payload, templateVars, deployVars >>

\* os.listdir(): the files in an order the file system chooses.
Listings(dir) ==
    { s \in [1..Cardinality(dir) -> dir] : \A i, j \in 1..Cardinality(dir) : i # j => s[i] # s[j] }

\* for file in directory: if "Export_Configs" in file: target_file = file
RECURSIVE SelectTargetFile(_, _)
SelectTargetFile(listing, target) ==
    IF listing = <<>> THEN target
    ELSE SelectTargetFile(
             Tail(listing),
             IF IsSubstr(MARKER, Head(listing).name) THEN Head(listing).name ELSE target)

FileNamed(dir, name) == CHOOSE f \in dir : f.name = name

\* for device in target_devices: nothing to do when the dict is empty.
AfterValidationOfFirst(done, device_list) ==
    IF done >= 1 THEN "generateTemplatePayload" ELSE "validate_snmp_config"

AfterValidation(done, device_list) ==
    IF done >= Len(device_list) THEN "generateTemplatePayload" ELSE "validate_snmp_config"

ExtractionRaisesNever(file) == FALSE

\* zip.extractall(..., pwd=ARCHIVE_SECRET) raises RuntimeError: the archive was
\* encrypted with another passphrase.
ExtractionRaises(file) == file.pwd # ARCHIVE_SECRET

UnzipConfigFile ==
    /\ pc = "unzipConfigFile"
    /\ \E listing \in Listings(directory) :
        LET target == SelectTargetFile(listing, Unbound)
        IN  /\ target_file' = target
            /\ IF target = Unbound
               THEN /\ Raise("UnboundLocalError")
                    /\ UNCHANGED << configfiles, trace >>
               ELSE IF ExtractionRaises(FileNamed(directory, target))
               THEN /\ Exit1
                    /\ trace' = Append(trace, "extractall")
                    /\ UNCHANGED configfiles
               ELSE /\ \E cf \in [{ target_devices[i].key : i \in 1..Len(target_devices) }
                                    -> ExportedConfigs] :
                         configfiles' = cf
                    /\ trace' = Append(trace, "extractall")
                    /\ pc' = AfterValidation(0, target_devices)
                    /\ UNCHANGED endVars
    /\ UNCHANGED << settingVars, enumVars, target_devices, taskVars, directory,
                    validateVars, template_payload, templateVars, deployVars >>

AttachFindingsAlways(val, found) == [id |-> val.id, bad_config |-> found]

\* if result: target_devices[device]["bad_config"] = result
AttachFindings(val, found) ==
    IF found # <<>> THEN [id |-> val.id, bad_config |-> found] ELSE val

DeployTargetUnbound(device) ==
    [id |-> device, type |-> "MANAGED_DEVICE_IP", params |-> [device_ip |-> ""]]

\* The target appended to deployable_devices for one device.
DeployTarget(device) ==
    [id |-> device, type |-> "MANAGED_DEVICE_IP", params |-> [device_ip |-> device]]

\* One turn of the loop of run() over target_devices.
ValidateDevice ==
    /\ pc = "validate_snmp_config"
    /\ vidx < Len(target_devices)
    /\ LET device == target_devices[vidx + 1].key
           out    == validate_snmp_config(configfiles[device])
       IN  /\ running_config' = configfiles[device]
           /\ result' = out.bad_config
           /\ config_found' = out.config_found
           /\ findings' = Append(findings, [device |-> device, result |-> out.bad_config])
           /\ target_devices' =
                  DictSet(target_devices, device,
                          AttachFindings(target_devices[vidx + 1].val, out.bad_config))
           /\ deployable_devices' =
                  Append(deployable_devices, DeployTarget(device))
    /\ vidx' = vidx + 1
    /\ trace' = Append(trace, "validate_snmp_config")
    /\ pc' = AfterValidation(vidx + 1, target_devices)
    /\ UNCHANGED << settingVars, enumVars, taskVars, fileVars, template_payload,
                    templateVars, deployVars, endVars >>

DevicesAfterSynthesisCleared(device_list) ==
    [i \in 1..Len(device_list) |->
        [key |-> device_list[i].key, val |-> [id |-> device_list[i].val.id]]]

\* generateTemplatePayload only reads device_list and device_list[device].
DevicesAfterSynthesis(device_list) == device_list

GenerateTemplatePayload ==
    /\ pc = "generateTemplatePayload"
    /\ template_payload' = generateTemplatePayload(target_devices)
    /\ target_devices' = DevicesAfterSynthesis(target_devices)
    /\ trace' = Append(trace, "generateTemplatePayload")
    /\ pc' = "create_template"
    /\ UNCHANGED << settingVars, enumVars, taskVars, fileVars,
                    validateVars, templateVars, deployVars, endVars >>


(* -------------------------- createNewTemplate ------------------------- *)
HasTemplateNamed(templates, name) == \E i \in 1..Len(templates) : templates[i].name = name

\* getProjectID() and the create_template call.  The controller refuses a
\* name the project already holds, and may refuse for another reason.
CreateTemplate ==
    /\ pc = "create_template"
    /\ \E pre \in ProjectStates, accepted \in BOOLEAN :
        IF HasTemplateNamed(pre, TEMPLATE_NAME)
        THEN /\ project_templates' = pre
             /\ create_outcome' = "conflict"
             /\ pc' = "confirm_continue"
        ELSE IF accepted
        THEN /\ project_templates' = Append(pre, [name |-> TEMPLATE_NAME, id |-> "tmpl-new"])
             /\ create_outcome' = "ok"
             /\ pc' = "query_template_id"
        ELSE /\ project_templates' = pre
             /\ create_outcome' = "error"
             /\ pc' = "confirm_continue"
    /\ trace' = trace \o << "get_projects", "create_template" >>
    /\ UNCHANGED << settingVars, enumVars, target_devices, taskVars, fileVars,
                    validateVars, template_payload, continue_answer, template_id,
                    deployVars, endVars >>

\* if error: if not Confirm.ask("Continue", default=True): sys.exit(1)
ConfirmContinue ==
    /\ pc = "confirm_continue"
    /\ \E answer \in BOOLEAN :
        /\ continue_answer' = IF answer THEN "yes" ELSE "no"
        /\ IF ~answer
           THEN Exit1
           ELSE pc' = "query_template_id" /\ UNCHANGED endVars
    /\ UNCHANGED << settingVars, enumVars, target_devices, taskVars, fileVars,
                    validateVars, template_payload, project_templates, create_outcome,
                    template_id, deployVars, trace >>

FindLastTemplateId(templates, found) ==
    IF templates = <<>> THEN found ELSE templates[Len(templates)].id

\* for template in project[0]["templates"]: if template["name"] == TEMPLATE_NAME: ...
RECURSIVE FindTemplateId(_, _)
FindTemplateId(templates, found) ==
    IF templates = <<>> THEN found
    ELSE FindTemplateId(
             Tail(templates),
             IF Head(templates).name = TEMPLATE_NAME THEN Head(templates).id ELSE found)

CommitCallsNoVersion == << "get_projects" >>

\* The controller calls of createNewTemplate once the id is bound.
CommitCalls == << "get_projects", "version_template" >>

\* The query for the template's id and the version_template call.
CommitTemplate ==
    /\ pc = "query_template_id"
    /\ template_id' = FindTemplateId(project_templates, Unbound)
    /\ IF template_id' = Unbound
       THEN /\ Raise("UnboundLocalError")
            /\ trace' = Append(trace, "get_projects")
       ELSE /\ trace' = trace \o CommitCalls
            /\ pc' = "confirm_deploy"
            /\ UNCHANGED endVars
    /\ UNCHANGED << settingVars, enumVars, target_devices, taskVars, fileVars,
                    validateVars, template_payload, project_templates, create_outcome,
                    continue_answer, deployVars >>

(* ------------------------------ deployment ---------------------------- *)
DeclinedNever(answer) == FALSE

\* if not Confirm.ask(...)
Declined(answer) == ~answer

ConfirmDeploy ==
    /\ pc = "confirm_deploy"
    /\ \E answer \in BOOLEAN :
        /\ deploy_answer' = IF answer THEN "yes" ELSE "no"
        /\ IF Declined(answer)
           THEN Exit1
           ELSE pc' = "deploy_template" /\ UNCHANGED endVars
    /\ UNCHANGED << settingVars, enumVars, target_devices, taskVars, fileVars,
                    validateVars, template_payload, templateVars, deploy_log,
                    failure_reports, deploy_requests, trace >>

\* deployTemplate up to its poll loop.
DeployTemplate ==
    /\ pc = "deploy_template"
    /\ deploy_requests' = Append(deploy_requests,
                                 [templateId |-> template_id,
                                  targetInfo |-> deployable_devices])
    /\ trace' = Append(trace, "deploy_template")
    /\ pc' = "get_template_deployment_status"
    /\ UNCHANGED << settingVars, enumVars, target_devices, taskVars, fileVars,
                    validateVars, template_payload, templateVars, deploy_answer,
                    deploy_log, failure_reports, endVars >>

\* What the controller may answer next: a failed deployment stays failed.
NextStatuses(log) ==
    IF log # <<>> /\ log[Len(log)] = "FAILURE" THEN { "FAILURE" } ELSE DeploymentStatuses

DeploymentSucceededNever(status) == FALSE

\* if response["status"] == "SUCCESS": ... break
DeploymentSucceeded(status) == status = "SUCCESS"

\* One turn of the poll loop of deployTemplate.
DeploymentStatus ==
    /\ pc = "get_template_deployment_status"
    /\ Len(deploy_log) < MaxPolls
    /\ \E status \in NextStatuses(deploy_log) :
        /\ deploy_log' = Append(deploy_log, status)
        /\ IF DeploymentSucceeded(status)
           THEN /\ pc' = "done"
                /\ exit_status' = "0"
                /\ UNCHANGED << exception, failure_reports >>
           ELSE IF status = "FAILURE"
           THEN /\ failure_reports' = Append(failure_reports, [status |-> status])
                /\ UNCHANGED << pc, endVars >>
           ELSE UNCHANGED << pc, endVars, failure_reports >>
    /\ trace' = Append(trace, "get_template_deployment_status")
    /\ UNCHANGED << settingVars, enumVars, target_devices, taskVars, fileVars,
                    validateVars, template_payload, templateVars, deploy_answer,
                    deploy_requests >>

Next ==
    \/ GetDeviceList
    \/ ExportDeviceConfigurations
    \/ CheckTaskStatus
    \/ DownloadFile
    \/ UnzipConfigFile
    \/ ValidateDevice
    \/ GenerateTemplatePayload
    \/ CreateTemplate
    \/ ConfirmContinue
    \/ CommitTemplate
    \/ ConfirmDeploy
    \/ DeployTemplate
    \/ DeploymentStatus

Spec == Init /\ [][Next]_vars


(* ---------------- validate_snmp_config on its own --------------------- *)
ValidatorSettings ==
    { [host |-> "", community |-> ""],
      [host |-> "10.0.0.2", community |-> "public"],
      [host |-> "10.0.0.2", community |-> ""] }

\* run() about to validate its only device, whose running config is any
\* text of at most MaxLines lines.
InitValidate ==
    /\ pc = "validate_snmp_config"
    /\ \E s \in ValidatorSettings :
        /\ VALID_SNMP_SERVER_HOST = s.host
        /\ VALID_SNMP_SERVER_COMMUNITY = s.community
    /\ NEW_CONFIG = "snmp-server host 10.0.0.2 community public"
    /\ LOCATION_FILTER = <<>>
    /\ exit_status = "running"
    /\ exception = ""
    /\ devices = << [id |-> "uuid-1", managementIpAddress |-> "10.0.0.1",
                     family |-> "Switches and Hubs", series |-> "Catalyst 9300",
                     location |-> "SiteA"] >>
    /\ target_devices = << [key |-> "10.0.0.1", val |-> [id |-> "uuid-1"]] >>
    /\ device_types = << [productFamily |-> "Switches and Hubs",
                          productSeries |-> "Catalyst 9300"] >>
    /\ task_log = << [endTime |-> 1667635200, progress |-> "Export completed",
                      additionalStatusURL |-> "/api/v1/file/file-1"] >>
    /\ task_response = task_log[1]
    /\ directory = { [name |-> "Export_Configs_new.zip", pwd |-> ARCHIVE_SECRET] }
    /\ target_file = "Export_Configs_new.zip"
    /\ \E text \in ConfigTexts(MaxLines) : configfiles = [d \in { "10.0.0.1" } |-> text]
    /\ vidx = 0
    /\ running_config = ""
    /\ result = <<>>
    /\ config_found = FALSE
    /\ findings = <<>>
    /\ deployable_devices = <<>>
    /\ template_payload = ""
    /\ project_templates = <<>>
    /\ create_outcome = "none"
    /\ continue_answer = "unasked"
    /\ template_id = Unbound
    /\ deploy_answer = "unasked"
    /\ deploy_log = <<>>
    /\ failure_reports = <<>>
    /\ deploy_requests = <<>>
    /\ trace = << "get_device_list", "export_device_configurations", "get_task_by_id",
                  "download_a_file_by_fileid", "extractall" >>

SpecValidate == InitValidate /\ [][ValidateDevice]_vars

(* --------------- generateTemplatePayload on its own ------------------- *)
Addresses == { "10.0.0.1", "10.0.0.2", "10.0.0.3" }

\* Non-compliant lines as validate_snmp_config returns them.
BadLines ==
    { "snmp-server host 10.0.0.1 community wrongcomm",
      "snmp-server host 10.0.0.2 community private" }

\* The values of a device record: never an empty bad_config.
DeviceValues ==
    { [id |-> "uuid"] }
    \cup { [id |-> "uuid", bad_config |-> f] : f \in SeqsOfDistinct(BadLines, MaxLines) \ { <<>> } }

DeviceLists ==
    UNION { { [i \in 1..Len(keys) |-> [key |-> keys[i], val |-> vals[i]]] :
                vals \in [1..Len(keys) -> DeviceValues] } :
            keys \in SeqsOfDistinct(Addresses, MaxDevices) }

\* NEW_CONFIG as shipped, as a host line, and as a removal line.
Directives ==
    { "",
      "snmp-server host 10.0.0.2 community public",
      "no snmp-server host 10.0.0.1 community wrongcomm" }

\* run() about to synthesize, for any device records and directive.
InitSynth ==
    /\ pc = "generateTemplatePayload"
    /\ VALID_SNMP_SERVER_HOST = "10.0.0.2"
    /\ VALID_SNMP_SERVER_COMMUNITY = "public"
    /\ NEW_CONFIG \in Directives
    /\ LOCATION_FILTER = <<>>
    /\ exit_status = "running"
    /\ exception = ""
    /\ devices = <<>>
    /\ target_devices \in DeviceLists
    /\ device_types = <<>>
    /\ task_log = << [endTime |-> 1667635200, progress |-> "Export completed",
                      additionalStatusURL |-> "/api/v1/file/file-1"] >>
    /\ task_response = task_log[1]
    /\ directory = { [name |-> "Export_Configs_new.zip", pwd |-> ARCHIVE_SECRET] }
    /\ target_file = "Export_Configs_new.zip"
    /\ configfiles = <<>>
    /\ vidx = Len(target_devices)
    /\ running_config = ""
    /\ result = <<>>
    /\ config_found = FALSE
    /\ findings = <<>>
    /\ deployable_devices = <<>>
    /\ template_payload = ""
    /\ project_templates = <<>>
    /\ create_outcome = "none"
    /\ continue_answer = "unasked"
    /\ template_id = Unbound
    /\ deploy_answer = "unasked"
    /\ deploy_log = <<>>
    /\ failure_reports = <<>>
    /\ deploy_requests = <<>>
    /\ trace = << "get_device_list", "export_device_configurations", "get_task_by_id",
                  "download_a_file_by_fileid", "extractall" >>

SpecSynth == InitSynth /\ [][GenerateTemplatePayload]_vars


(* ============================== claims ================================ *)
Count(seq, x) == Cardinality({ i \in 1..Len(seq) : seq[i] = x })

Occurs(seq, x) == \E i \in 1..Len(seq) : seq[i] = x

\* The lines of a text: what lies between its "\n" characters.
TextLines(text) == Split(text, "\n")

\* C1: in deployTemplate, once a status poll has returned FAILURE no further
\* get_template_deployment_status call is made: FAILURE can only be the last
\* status the loop ever received.
C1_StopsPollingAfterFailure ==
    \A i \in 1..Len(deploy_log) : deploy_log[i] = "FAILURE" => i = Len(deploy_log)

\* C2: checkTaskStatus polls on while the status record has no endTime, and
\* on the first poll whose record has endTime set it returns exactly that
\* record and calls get_task_by_id no more.
C2_PollUntilEndTime ==
    /\ \A i \in 1..Len(task_log) : task_log[i].endTime # 0 => i = Len(task_log)
    /\ Count(trace, "get_task_by_id") = Len(task_log)
    /\ pc = "checkTaskStatus" => \A i \in 1..Len(task_log) : task_log[i].endTime = 0
    /\ (/\ pc \notin { "get_device_list", "export_device_configurations", "checkTaskStatus" }
        /\ exception # "ConnectionError")
       => /\ task_log # <<>>
          /\ task_log[Len(task_log)].endTime # 0
          /\ task_response = task_log[Len(task_log)]

\* C2 witness: the poller returned on its third poll.
C2_Witness ==
    /\ pc = "downloadFile"
    /\ Len(task_log) = 3
    /\ task_response = task_log[3]

\* C3: at the end of the synthesis step, a targeted device has a guard line
\* #if($device_ip == 'd') in the template exactly when validate_snmp_config
\* returned at least one non-compliant line for it.
C3_GuardIffFindings ==
    pc = "create_template" =>
        \A i \in 1..Len(target_devices) :
            LET d == target_devices[i].key
            IN  Occurs(TextLines(template_payload), "#if($device_ip == '" \o d \o "')")
                <=> \E j \in 1..Len(findings) :
                        findings[j].device = d /\ findings[j].result # <<>>

\* C3 witness: a synthesized template for two devices, one with findings and
\* one whose validation returned none.
C3_Witness ==
    /\ pc = "create_template"
    /\ Len(findings) = 2
    /\ findings[1].result = <<>>
    /\ findings[2].result # <<>>
    /\ Occurs(TextLines(template_payload), "#if($device_ip == '" \o findings[2].device \o "')")

LastNonEmpty(lines) ==
    LET at == { i \in 1..Len(lines) : lines[i] # "" }
    IN  IF at = {} THEN 0 ELSE CHOOSE i \in at : \A j \in at : j <= i

\* The lines the synthesizer emits for the devices, NEW_CONFIG apart.
BlockLines == TextLines(JoinLines(DeviceBlocks(target_devices)))

\* C4 as claimed: for every NEW_CONFIG the template holds exactly one line equal
\* to the directive, and it is the final non-empty line.
C4_Original ==
    pc = "create_template" =>
        LET lines == TextLines(template_payload)
        IN  /\ Count(lines, NEW_CONFIG) = 1
            /\ LastNonEmpty(lines) # 0
            /\ lines[LastNonEmpty(lines)] = NEW_CONFIG

\* C4 amended: for every NEW_CONFIG that is a non-empty single line and is not
\* itself a guard, removal or #end line of the template, the template holds
\* exactly one line equal to the directive, and it is the final non-empty line,
\* however many devices are non-compliant.
C4_OneDirectiveLast ==
    (/\ pc = "create_template"
     /\ NEW_CONFIG # ""
     /\ ~IsSubstr("\n", NEW_CONFIG)
     /\ (DeviceBlocks(target_devices) # <<>> => ~Occurs(BlockLines, NEW_CONFIG)))
    => LET lines == TextLines(template_payload)
       IN  /\ Count(lines, NEW_CONFIG) = 1
           /\ LastNonEmpty(lines) = Len(lines)
           /\ lines[Len(lines)] = NEW_CONFIG

\* C4 witness: a template with two guard blocks and the directive after them.
C4_Witness ==
    /\ pc = "create_template"
    /\ NEW_CONFIG = "snmp-server host 10.0.0.2 community public"
    /\ Count(TextLines(template_payload), "#end") = 2
    /\ Count(TextLines(template_payload), NEW_CONFIG) = 1

\* The line is non-compliant: it holds the keyword and lacks an expected value.
C5_NonCompliant(line) ==
    /\ IsSubstr("snmp-server host", line)
    /\ ~(IsSubstr(VALID_SNMP_SERVER_HOST, line) /\ IsSubstr(VALID_SNMP_SERVER_COMMUNITY, line))

\* C5: the result of validate_snmp_config is the keyword lines of the running
\* config that lack the expected host or the expected community, trimmed, in
\* file order, and nothing else.
C5_ResultIsNonCompliantLines ==
    vidx = 1 =>
        LET bad == SelectSeq(FileLines(running_config, 1), C5_NonCompliant)
        IN  /\ result = [i \in 1..Len(bad) |-> strip(bad[i])]
            /\ findings[1].result = result

\* C5 witness: a config with one compliant and one non-compliant keyword line,
\* the non-compliant one returned trimmed.
C5_Witness ==
    /\ vidx = 1
    /\ VALID_SNMP_SERVER_HOST = "10.0.0.2"
    /\ VALID_SNMP_SERVER_COMMUNITY = "public"
    /\ running_config = "snmp-server host 10.0.0.2 community public\n"
                        \o " snmp-server host 10.0.0.2 community private \n"
    /\ result = << "snmp-server host 10.0.0.2 community private" >>


\* C6 (generateTemplatePayload deterministic) is a statement about two
\* evaluations of one operator; it has no formula here.

\* The stage of run() a call or step belongs to.
StageOf(op) ==
    CASE op \in { "get_device_list", "get_device_detail" } -> 0
      [] op = "export_device_configurations" -> 1
      [] op \in { "get_task_by_id", "get_task_by_id:ConnectionError" } -> 2
      [] op = "download_a_file_by_fileid" -> 3
      [] op = "extractall" -> 4
      [] op = "validate_snmp_config" -> 5
      [] op = "generateTemplatePayload" -> 6
      [] op \in { "get_projects", "create_template", "version_template" } -> 7
      [] op \in { "deploy_template", "get_template_deployment_status" } -> 8

\* The stage that must have run before stage r: validation is empty when no
\* device is targeted.
StageBefore(r) == IF r = 6 /\ target_devices = <<>> THEN 4 ELSE r - 1

OneShotSteps ==
    { "get_device_list", "export_device_configurations", "download_a_file_by_fileid",
      "extractall", "generateTemplatePayload", "create_template", "version_template",
      "deploy_template" }

\* C7: the stages of a run occur in the order export request, task completion,
\* download, extract, validation of all devices, synthesis, template creation,
\* deployment; none starts before the previous one has finished, none runs
\* twice, no device is validated before extraction has succeeded, and synthesis
\* starts only when every targeted device has been validated.
C7_StagesInOrder ==
    /\ \A i, j \in 1..Len(trace) : i < j => StageOf(trace[i]) <= StageOf(trace[j])
    /\ \A op \in OneShotSteps : Count(trace, op) <= 1
    /\ \A j \in 1..Len(trace) :
         StageOf(trace[j]) >= 1
         => \E i \in 1..(j - 1) : StageOf(trace[i]) = StageBefore(StageOf(trace[j]))
    /\ Occurs(trace, "download_a_file_by_fileid")
       => task_log # <<>> /\ task_log[Len(task_log)].endTime # 0
    /\ Occurs(trace, "validate_snmp_config")
       => \E f \in directory : f.name = target_file /\ f.pwd = ARCHIVE_SECRET
    /\ Occurs(trace, "generateTemplatePayload")
       => /\ Count(trace, "validate_snmp_config") = Len(target_devices)
          /\ [i \in 1..Len(findings) |-> findings[i].device] = DictKeys(target_devices)
    /\ Occurs(trace, "deploy_template") => Occurs(trace, "version_template")

\* C7 witness: a run over two targeted devices that went through every stage.
C7_Witness ==
    /\ pc = "done"
    /\ Len(target_devices) = 2
    /\ Count(trace, "validate_snmp_config") = 2
    /\ Occurs(trace, "get_template_deployment_status")

\* C8: after a "no" at the final confirmation the run has exited with status 1,
\* deploy_template was never called, no call follows the commit, and the
\* committed template is still in the project.
C8_DeclinedDeployment ==
    deploy_answer = "no" =>
        /\ pc = "exited"
        /\ exit_status = "1"
        /\ ~Occurs(trace, "deploy_template")
        /\ deploy_log = <<>>
        /\ trace[Len(trace)] = "version_template"
        /\ \E i \in 1..Len(project_templates) :
               /\ project_templates[i].name = TEMPLATE_NAME
               /\ project_templates[i].id = template_id

\* C8 witness: the operator declined a freshly created template.
C8_Witness ==
    /\ deploy_answer = "no"
    /\ create_outcome = "ok"
    /\ pc = "exited"

\* C9: after a template conflict, a confirming operator gets the id of the
\* existing template named TEMPLATE_NAME, a version is committed and the run
\* goes on; a declining operator ends the run with status 1 and neither
\* version_template nor deploy_template is called.
C9_ConflictRecoverable ==
    create_outcome = "conflict" =>
        /\ continue_answer = "no"
           => /\ pc = "exited"
              /\ exit_status = "1"
              /\ ~Occurs(trace, "version_template")
              /\ ~Occurs(trace, "deploy_template")
        /\ (continue_answer = "yes" /\ pc # "query_template_id")
           => /\ exception = ""
              /\ \E i \in 1..Len(project_templates) :
                     /\ project_templates[i].name = TEMPLATE_NAME
                     /\ project_templates[i].id = template_id
              /\ Occurs(trace, "version_template")
              /\ pc \in { "confirm_deploy", "deploy_template",
                          "get_template_deployment_status", "done", "exited" }
              /\ pc = "exited" => deploy_answer = "no"

\* C9 witness: a run that met a conflict, was confirmed and deployed the
\* existing template.
C9_Witness ==
    /\ create_outcome = "conflict"
    /\ continue_answer = "yes"
    /\ template_id = "tmpl-old"
    /\ pc = "done"

MarkerFiles == { f \in directory : IsSubstr("Export_Configs", f.name) }

\* C10: when the directory holds no file or several files whose name holds
\* Export_Configs, unzipConfigFile ends in an error: it neither picks one of the
\* candidates nor goes on with none.
C10_ErrorUnlessOneCandidate ==
    (/\ Occurs(trace, "download_a_file_by_fileid")
     /\ pc # "unzipConfigFile"
     /\ Cardinality(MarkerFiles) # 1)
    => pc \in { "exited", "crashed" }

\* The archive unzipConfigFile opened.
OpenedArchive == FileNamed(directory, target_file)

\* Extraction was tried and ended the run.
ExtractionFailed ==
    /\ pc = "exited"
    /\ trace[Len(trace)] = "extractall"

\* C11: extraction succeeds exactly when the archive that is opened was
\* encrypted with ARCHIVE_SECRET; with any other passphrase the run exits with
\* status 1 and no validation, synthesis, template creation or deployment
\* follows.
C11_ExtractionIffSecret ==
    Occurs(trace, "extractall") =>
        /\ ~ExtractionFailed <=> OpenedArchive.pwd = "Abcdefgh12345678!"
        /\ ExtractionFailed
           => /\ exit_status = "1"
              /\ findings = <<>>
              /\ deployable_devices = <<>>
              /\ template_payload = ""
              /\ create_outcome = "none"
              /\ template_id = Unbound
              /\ deploy_log = <<>>
              /\ \A i \in 1..Len(trace) : StageOf(trace[i]) <= 4

\* C11 witness: the stale archive was listed last, opened, and the run ended.
C11_Witness ==
    /\ ExtractionFailed
    /\ target_file = "Export_Configs_old.zip"
    /\ Cardinality(directory) = 2
    /\ target_devices # <<>>

\* C12: the poll that observes SUCCESS is the last one: deployTemplate has
\* returned normally (the run is done with status 0, no exception), and no
\* status query follows it.
C12_SuccessReturns ==
    /\ \A i \in 1..Len(deploy_log) :
         deploy_log[i] = "SUCCESS"
         => /\ i = Len(deploy_log)
            /\ pc = "done"
            /\ exit_status = "0"
            /\ exception = ""
            /\ trace[Len(trace)] = "get_template_deployment_status"
            /\ Count(trace, "get_template_deployment_status") = i
    /\ pc = "done" => deploy_log # <<>> /\ deploy_log[Len(deploy_log)] = "SUCCESS"

\* C12 witness: SUCCESS on the third poll, after two SUBMITTED.
C12_Witness ==
    /\ deploy_log = << "SUBMITTED", "SUBMITTED", "SUCCESS" >>
    /\ pc = "done"

\* C13: a transport error raised by a status query of checkTaskStatus leaves the
\* poller unhandled: that query is the last step of the run, which ends with
\* the exception; no get_task_by_id call and no later stage follows.
C13_PollErrorPropagates ==
    Occurs(trace, "get_task_by_id:ConnectionError") =>
        /\ trace[Len(trace)] = "get_task_by_id:ConnectionError"
        /\ Count(trace, "get_task_by_id:ConnectionError") = 1
        /\ pc = "crashed"
        /\ exception = "ConnectionError"
        /\ exit_status = "1"
        /\ \A i \in 1..Len(trace) : StageOf(trace[i]) <= 2
        /\ directory = {}
        /\ findings = <<>>
        /\ template_payload = ""
        /\ template_id = Unbound
        /\ deploy_log = <<>>

\* C13 witness: two polls answered, the third raised.
C13_Witness ==
    /\ exception = "ConnectionError"
    /\ Len(task_log) = 2
    /\ Count(trace, "get_task_by_id") = 2

\* C14: device records are keyed by management address: target_devices never
\* holds an address twice, and at the end of synthesis the template holds at
\* most one guard line per address, also when two enumerated devices report
\* the same address.
C14_OneBlockPerAddress ==
    /\ \A i, j \in 1..Len(target_devices) :
         target_devices[i].key = target_devices[j].key => i = j
    /\ pc = "create_template"
       => \A i \in 1..Len(devices) :
            Count(TextLines(template_payload),
                  "#if($device_ip == '" \o devices[i].managementIpAddress \o "')") <= 1

\* C14 witness: two enumerated devices share 10.0.0.1, which is non-compliant
\* and has its one guard line in the template.
C14_Witness ==
    /\ pc = "create_template"
    /\ \E i, j \in 1..Len(devices) :
         /\ i # j
         /\ devices[i].managementIpAddress = "10.0.0.1"
         /\ devices[j].managementIpAddress = "10.0.0.1"
    /\ Count(TextLines(template_payload), "#if($device_ip == '10.0.0.1')") = 1

\* The first position of x in seq.
Index(seq, x) == CHOOSE i \in 1..Len(seq) : seq[i] = x /\ \A j \in 1..(i - 1) : seq[j] # x

\* The enumerated device at position i passed the location filter.
Targeted(i) == Len(LOCATION_FILTER) = 0 \/ InFilter(devices[i].location, LOCATION_FILTER)

\* The position at which address a was first enumerated for a targeted device.
FirstSeen(a) ==
    CHOOSE i \in 1..Len(devices) :
        /\ Targeted(i) /\ devices[i].managementIpAddress = a
        /\ \A j \in 1..(i - 1) : ~(Targeted(j) /\ devices[j].managementIpAddress = a)

\* Validation of address a returned at least one non-compliant line.
NonCompliantAddress(a) ==
    \E j \in 1..Len(findings) : findings[j].device = a /\ findings[j].result # <<>>

\* Address a is validated before address b and its guard line comes first.
ValidatedAndEmittedBefore(a, b) ==
    /\ Index(DictKeys(target_devices), a) < Index(DictKeys(target_devices), b)
    /\ Index([k \in 1..Len(findings) |-> findings[k].device], a)
         < Index([k \in 1..Len(findings) |-> findings[k].device], b)
    /\ Index(TextLines(template_payload), GuardOpen(a))
         < Index(TextLines(template_payload), GuardOpen(b))

\* C15 as stated: at the end of synthesis, if device a was enumerated before
\* device b and both are targeted and non-compliant, a's address is validated
\* before b's and a's guard line precedes b's in the template.
C15_Original ==
    pc = "create_template" =>
        \A i, j \in 1..Len(devices) :
            LET a == devices[i].managementIpAddress
                b == devices[j].managementIpAddress
            IN  (/\ i < j /\ a # b
                 /\ Targeted(i) /\ Targeted(j)
                 /\ NonCompliantAddress(a) /\ NonCompliantAddress(b))
                => ValidatedAndEmittedBefore(a, b)

\* C15: at the end of synthesis, validation order and guard-line order follow
\* the order in which each management address was first enumerated for a
\* targeted device: if address a was first seen before address b and both are
\* non-compliant, a is validated before b and a's guard line precedes b's.
C15_FirstDiscoveryOrder ==
    pc = "create_template" =>
        \A i, j \in 1..Len(devices) :
            LET a == devices[i].managementIpAddress
                b == devices[j].managementIpAddress
            IN  (/\ a # b
                 /\ Targeted(i) /\ Targeted(j)
                 /\ FirstSeen(a) < FirstSeen(b)
                 /\ NonCompliantAddress(a) /\ NonCompliantAddress(b))
                => ValidatedAndEmittedBefore(a, b)

\* C15 witness: the third enumerated device repeats the first one's address;
\* both addresses are non-compliant and the repeated address, first seen at
\* position 1, is validated and emitted before the address seen at position 2.
C15_Witness ==
    /\ pc = "create_template"
    /\ Len(devices) = 3
    /\ Targeted(1) /\ Targeted(2) /\ Targeted(3)
    /\ devices[3].managementIpAddress = devices[1].managementIpAddress
    /\ devices[2].managementIpAddress # devices[1].managementIpAddress
    /\ NonCompliantAddress(devices[1].managementIpAddress)
    /\ NonCompliantAddress(devices[2].managementIpAddress)
    /\ ValidatedAndEmittedBefore(devices[3].managementIpAddress,
                                 devices[2].managementIpAddress)

\* The step attaches a non-empty finding list to record i, which had none,
\* and leaves its key, its id and every other record alone.
AttachesFindingsAt(i) ==
    /\ Len(target_devices') = Len(target_devices)
    /\ \A k \in 1..Len(target_devices) : k # i => target_devices'[k] = target_devices[k]
    /\ target_devices'[i].key = target_devices[i].key
    /\ ~HasBadConfig(target_devices[i].val)
    /\ HasBadConfig(target_devices'[i].val)
    /\ target_devices'[i].val.id = target_devices[i].val.id
    /\ target_devices'[i].val.bad_config # <<>>

\* C16: device records are created by the enumeration step; after that the
\* only step that changes target_devices is a validation step, which attaches
\* a non-empty finding list to one record that had none (so each record
\* changes at most once); synthesis, template creation, the confirmations
\* and deployment leave every record unchanged.
C16_RecordsChangeOnceAtValidation ==
    [][ target_devices' # target_devices
        => \/ pc = "get_device_list"
           \/ /\ pc = "validate_snmp_config"
              /\ AttachesFindingsAt(vidx + 1) ]_vars

\* C16 witness: a run that deployed, in which validation attached findings to
\* a record and the record still holds exactly those findings.
C16_Witness ==
    /\ pc = "done"
    /\ Occurs(trace, "deploy_template")
    /\ \E i \in 1..Len(target_devices) :
         /\ HasBadConfig(target_devices[i].val)
         /\ target_devices[i].val.bad_config = findings[i].result

\* In the lines L, the block of device d with findings f starts at line g:
\* guard line, one removal line per finding in order, "#end", a blank line.
BlockAt(L, g, d, f) ==
    /\ g + Len(f) + 2 <= Len(L)
    /\ L[g] = "#if($device_ip == '" \o d \o "')"
    /\ \A m \in 1..Len(f) : L[g + m] = "no " \o f[m]
    /\ L[g + Len(f) + 1] = "#end"
    /\ L[g + Len(f) + 2] = ""

\* C17: in the synthesized template every device record with findings
\* [l1..lk] has, from its guard line on, contiguously: the guard line
\* #if($device_ip == 'd'), exactly k lines "no li" in the order of the
\* findings, "#end", and one blank line.
C17_BlockLayout ==
    pc = "create_template" =>
        \A i \in 1..Len(target_devices) :
            HasBadConfig(target_devices[i].val)
            => /\ Occurs(TextLines(template_payload), GuardOpen(target_devices[i].key))
               /\ BlockAt(TextLines(template_payload),
                          Index(TextLines(template_payload), GuardOpen(target_devices[i].key)),
                          target_devices[i].key,
                          target_devices[i].val.bad_config)

\* C17 witness: device 10.0.0.1 with two findings, the first being
\* "snmp-server host 10.0.0.1 community wrongcomm", heads the template with
\* its block of five lines.
C17_Witness ==
    /\ pc = "create_template"
    /\ Len(target_devices) >= 2
    /\ target_devices[1].key = "10.0.0.1"
    /\ HasBadConfig(target_devices[1].val)
    /\ target_devices[1].val.bad_config =
           << "snmp-server host 10.0.0.1 community wrongcomm",
              "snmp-server host 10.0.0.2 community private" >>
    /\ SubSeq(TextLines(template_payload), 1, 5) =
           << "#if($device_ip == '10.0.0.1')",
              "no snmp-server host 10.0.0.1 community wrongcomm",
              "no snmp-server host 10.0.0.2 community private",
              "#end",
              "" >>

\* Some line of the running config just validated contains the keyword.
KeywordLineRead ==
    \E i \in 1..Len(FileLines(running_config, 1)) :
        IsSubstr("snmp-server host", FileLines(running_config, 1)[i])

\* C18: after validate_snmp_config has read a running config, the
\* "No matching config found" observation was emitted exactly when no line of
\* the config contains "snmp-server host", and then the result is empty; with
\* a keyword line present it is not emitted, whatever the result.
C18_NoMatchIffNoKeywordLine ==
    vidx = 1 =>
        /\ NoMatchingConfigFound(config_found) <=> ~KeywordLineRead
        /\ ~KeywordLineRead => result = <<>>

\* C18 witness: the only keyword line is compliant, so the result is empty
\* and yet the observation was not emitted.
C18_Witness ==
    /\ vidx = 1
    /\ running_config = "hostname 10.0.0.2 public\n"
                        \o "snmp-server host 10.0.0.2 community public\n"
    /\ VALID_SNMP_SERVER_HOST = "10.0.0.2"
    /\ result = <<>>
    /\ ~NoMatchingConfigFound(config_found)

\* The targets of the submitted list whose device_ip parameter is address a.
TargetsFor(targetInfo, a) ==
    { k \in 1..Len(targetInfo) : targetInfo[k].params.device_ip = a }

\* C19: the target list handed to deploy_template has, for every enumerated
\* device that passed the location filter, compliant or not, exactly one
\* target whose device_ip parameter is that device's management address;
\* every target is bound by address (type MANAGED_DEVICE_IP, id = device_ip)
\* and belongs to such a device; the list follows the device records.
C19_OneTargetPerDevice ==
    \A r \in 1..Len(deploy_requests) :
        LET targetInfo == deploy_requests[r].targetInfo
        IN  /\ \A i \in 1..Len(devices) :
                 Targeted(i)
                 => Cardinality(TargetsFor(targetInfo, devices[i].managementIpAddress)) = 1
            /\ \A k \in 1..Len(targetInfo) :
                 /\ targetInfo[k].type = "MANAGED_DEVICE_IP"
                 /\ targetInfo[k].id = targetInfo[k].params.device_ip
                 /\ \E i \in 1..Len(devices) :
                      Targeted(i) /\ devices[i].managementIpAddress = targetInfo[k].id
            /\ [k \in 1..Len(targetInfo) |-> targetInfo[k].id] = DictKeys(target_devices)

\* C19 witness: a deployment was submitted for two targeted addresses of
\* which the first is compliant and the second is not; the list holds one
\* target for each, in that order.
C19_Witness ==
    /\ Len(deploy_requests) = 1
    /\ Len(deploy_requests[1].targetInfo) = 2
    /\ Len(findings) = 2
    /\ findings[1].result = <<>>
    /\ findings[2].result # <<>>
    /\ deploy_requests[1].targetInfo[1].params.device_ip = findings[1].device
    /\ deploy_requests[1].targetInfo[2].params.device_ip = findings[2].device

\* C20: deploy_template is called at most once in a run, and when it has been
\* called the template id was resolved, version_template was called before
\* it, the operator had answered yes at the final confirmation, and the call
\* carried that template id.
C20_DeployOnceAfterCommitAndYes ==
    /\ Count(trace, "deploy_template") <= 1
    /\ Len(deploy_requests) = Count(trace, "deploy_template")
    /\ Occurs(trace, "deploy_template")
       => /\ template_id # Unbound
          /\ deploy_requests[1].templateId = template_id
          /\ Occurs(trace, "version_template")
          /\ Index(trace, "get_projects") < Index(trace, "version_template")
          /\ Index(trace, "version_template") < Index(trace, "deploy_template")
          /\ deploy_answer = "yes"

\* C20 witness: a finished run whose template was created at once, committed
\* and, after a yes, submitted in one deploy_template call.
C20_Witness ==
    /\ pc = "done"
    /\ create_outcome = "ok"
    /\ deploy_answer = "yes"
    /\ Count(trace, "deploy_template") = 1
    /\ deploy_requests = << [templateId |-> template_id, targetInfo |-> deployable_devices] >>

====
